---------------------------- MODULE Spec2Model ----------------------------
(***************************************************************************)
(* Model of meilisearch-auth/src/key.rs: the API key record `Key`, its     *)
(* constructors (create_from_value, default_admin, default_search), its    *)
(* partial update (update_from_value), the identifier generator and the    *)
(* expiration-date parser.                                                 *)
(*                                                                         *)
(* One record is followed through its life: it is constructed once and     *)
(* then updated any number of times.  A caller is either between two calls *)
(* (call.op = "idle") or holds the result of the call it just made; `call` *)
(* records that call: the operation, its input, the Result it returned and *)
(* the clock readings it took.  The clock never runs backwards; two        *)
(* successive readings may be equal.                                       *)
(***************************************************************************)
EXTENDS Integers, Sequences, FiniteSets, TLC

VARIABLES
    key,    \* Option<Key>: <<>> before any record exists, else <<record>>
    now,    \* the last reading of OffsetDateTime::now_utc()
    call    \* the call the caller last made, or Idle

vars == <<key, now, call>>

---------------------------------------------------------------------------
(* Bounds of the model. *)

MaxTime == 2      \* clock readings range over 0..MaxTime
MaxSeed == 1      \* thread_rng yields one of the streams 0..MaxSeed
MaxDay  == 1      \* calendar dates range over the days 0..MaxDay
MaxTick == 1      \* a time of day is one of the ticks 0..MaxTick

TicksPerDay == MaxTick + 1

---------------------------------------------------------------------------
(* Option<T> and Result<T>. *)

None == <<>>
Some(x) == <<x>>

NoRaw == [t |-> "null", v |-> <<>>]
NoErr == [kind |-> "", param |-> "", raw |-> NoRaw]
Ok(x) == [ok |-> TRUE, val |-> x, err |-> NoErr]
Fail(e) == [ok |-> FALSE, val |-> <<>>, err |-> e]

(* AuthControllerError, the variants key.rs constructs. *)
MissingParameter(name) == [kind |-> "MissingParameter", param |-> name, raw |-> NoRaw]
InvalidApiKeyDescription(v) == [kind |-> "InvalidApiKeyDescription", param |-> "", raw |-> v]
InvalidApiKeyActions(v) == [kind |-> "InvalidApiKeyActions", param |-> "", raw |-> v]
InvalidApiKeyIndexes(v) == [kind |-> "InvalidApiKeyIndexes", param |-> "", raw |-> v]
InvalidApiKeyExpiresAt(v) == [kind |-> "InvalidApiKeyExpiresAt", param |-> "", raw |-> v]

---------------------------------------------------------------------------
(* serde_json::Value.  A string is a sequence of tokens; a token is a      *)
(* piece of text [k, n]: a literal k, or a calendar date / time of day /   *)
(* UTC offset written out in digits and standing for the number n.         *)

Null == [t |-> "null", v |-> <<>>]
Str(s) == [t |-> "string", v |-> s]
Num(n) == [t |-> "number", v |-> <<n>>]
Arr(a) == [t |-> "array", v |-> a]

Ch(c) == [k |-> c, n |-> 0]
DateTok(d) == [k |-> "YYYY-MM-DD", n |-> d]
TimeTok(s) == [k |-> "HH:MM:SS", n |-> s]
OffsetTok(o) == [k |-> "+HH:MM", n |-> o]
Word(c) == <<Ch(c)>>

(* Value::get on the input mapping. *)
get(value, k) == IF k \in DOMAIN value THEN Some(value[k]) ELSE None

---------------------------------------------------------------------------
(* serde_json::from_value at the types key.rs asks for. *)

IsString(v) == v.t = "string"

(* from_value::<String> *)
from_value_String(v) == IF IsString(v) THEN Ok(v.v) ELSE Fail(NoErr)

(* from_value::<Option<String>> *)
from_value_Option_String(v) ==
    IF v.t = "null" THEN Ok(None)
    ELSE IF IsString(v) THEN Ok(Some(v.v))
    ELSE Fail(NoErr)

(* from_value::<Vec<String>> *)
from_value_Vec_String(v) ==
    IF v.t = "array" /\ \A i \in 1..Len(v.v) : IsString(v.v[i])
    THEN Ok([i \in 1..Len(v.v) |-> v.v[i].v])
    ELSE Fail(NoErr)

(* crate::action::Action: the tags the record's constructors use and the   *)
(* names they are written with.                                            *)
ActionNames == {Word("*"), Word("search")}
ActionOfName(s) == IF s = Word("*") THEN "All" ELSE "Search"

(* from_value::<Vec<Action>> *)
from_value_Vec_Action(v) ==
    IF v.t = "array"
       /\ \A i \in 1..Len(v.v) : IsString(v.v[i]) /\ v.v[i].v \in ActionNames
    THEN Ok([i \in 1..Len(v.v) |-> ActionOfName(v.v[i].v)])
    ELSE Fail(NoErr)

---------------------------------------------------------------------------
(* The parsers of the `time` crate that parse_expiration_date tries, each  *)
(* on the whole string.  An instant is a number of ticks since day 0,      *)
(* 00:00:00 UTC.                                                           *)

IsDate(tok) == tok.k = "YYYY-MM-DD"
IsTime(tok) == tok.k = "HH:MM:SS"
IsOffset(tok) == tok.k \in {"Z", "+HH:MM"}

(* OffsetDateTime::parse(string, &Rfc3339) *)
OffsetDateTime_parse_Rfc3339(string) ==
    IF Len(string) = 4 /\ IsDate(string[1]) /\ string[2].k = "T"
       /\ IsTime(string[3]) /\ IsOffset(string[4])
    THEN Ok(string[1].n * TicksPerDay + string[3].n - string[4].n)
    ELSE Fail(NoErr)

(* PrimitiveDateTime::parse(string, "[year]-[month]-[day]<sep>[hour]:[minute]:[second]") *)
(* followed by assume_utc()                                                *)
PrimitiveDateTime_parse(string, sep) ==
    IF Len(string) = 3 /\ IsDate(string[1]) /\ string[2].k = sep
       /\ IsTime(string[3])
    THEN Ok(string[1].n * TicksPerDay + string[3].n)
    ELSE Fail(NoErr)

(* Date::parse(string, "[year]-[month]-[day]"), then midnight, assume_utc() *)
Date_parse(string) ==
    IF Len(string) = 1 /\ IsDate(string[1])
    THEN Ok(string[1].n * TicksPerDay + 0)
    ELSE Fail(NoErr)

(* r.or_else(|_| s) *)
or_else(r, s) == IF r.ok THEN r ELSE s

(* The chain of the four formats, first match wins. *)
parse_formats(string) ==
    or_else(or_else(or_else(OffsetDateTime_parse_Rfc3339(string),
                            PrimitiveDateTime_parse(string, "T")),
                    PrimitiveDateTime_parse(string, " ")),
            Date_parse(string))

(* A faulty variant: a date equal to now is accepted. *)
parse_expiration_date_NotStrict(value, t) ==
    IF IsString(value) THEN
        LET d == parse_formats(value.v) IN
        IF ~d.ok THEN [ok |-> FALSE, val |-> None, err |-> InvalidApiKeyExpiresAt(value), reads |-> <<>>]
        ELSE IF d.val >= t THEN [ok |-> TRUE, val |-> Some(d.val), err |-> NoErr, reads |-> <<t>>]
        ELSE [ok |-> FALSE, val |-> None, err |-> InvalidApiKeyExpiresAt(value), reads |-> <<t>>]
    ELSE IF value.t = "null" THEN [ok |-> TRUE, val |-> None, err |-> NoErr, reads |-> <<>>]
    ELSE [ok |-> FALSE, val |-> None, err |-> InvalidApiKeyExpiresAt(value), reads |-> <<>>]

(* parse_expiration_date(value), with t the reading now_utc() gives if the *)
(* parse gets to it.  reads: the clock readings it took.                   *)
parse_expiration_date(value, t) ==
    IF IsString(value) THEN
        LET d == parse_formats(value.v) IN
        IF ~d.ok THEN [ok |-> FALSE, val |-> None, err |-> InvalidApiKeyExpiresAt(value), reads |-> <<>>]
        ELSE IF d.val > t THEN [ok |-> TRUE, val |-> Some(d.val), err |-> NoErr, reads |-> <<t>>]
        ELSE [ok |-> FALSE, val |-> None, err |-> InvalidApiKeyExpiresAt(value), reads |-> <<t>>]
    ELSE IF value.t = "null" THEN [ok |-> TRUE, val |-> None, err |-> NoErr, reads |-> <<>>]
    ELSE [ok |-> FALSE, val |-> None, err |-> InvalidApiKeyExpiresAt(value), reads |-> <<>>]

---------------------------------------------------------------------------
(* generate_id *)

KEY_ID_LENGTH == 64

CHARSET ==
    << "a","b","c","d","e","f","g","h","i","j","k","l","m",
       "n","o","p","q","r","s","t","u","v","w","x","y","z",
       "0","1","2","3","4","5","6","7","8","9",
       "A","B","C","D","E","F","G","H","I","J","K","L","M",
       "N","O","P","Q","R","S","T","U","V","W","X","Y","Z" >>

(* rng.gen_range(0..n), the i-th draw of stream `seed` of thread_rng. *)
gen_range(seed, i, n) == (seed * 31 + i * 7) % n

(* A faulty variant: the loop skips the first byte, which stays 0. *)
generate_id_SkipFirst(seed) ==
    [i \in 1..KEY_ID_LENGTH |->
        IF i = 1 THEN "NUL" ELSE CHARSET[gen_range(seed, i, Len(CHARSET)) + 1]]

generate_id(seed) ==
    [i \in 1..KEY_ID_LENGTH |-> CHARSET[gen_range(seed, i, Len(CHARSET)) + 1]]

---------------------------------------------------------------------------
(* struct Key *)

Key(description, id, actions, indexes, expires_at, created_at, updated_at) ==
    [description |-> description, id |-> id, actions |-> actions,
     indexes |-> indexes, expires_at |-> expires_at,
     created_at |-> created_at, updated_at |-> updated_at]

---------------------------------------------------------------------------
(* Key::create_from_value, field by field. *)

extract_description(value) ==
    LET des == get(value, "description") IN
    IF des = None THEN Ok(None)
    ELSE IF des[1].t = "null" THEN Ok(None)
    ELSE LET r == from_value_String(des[1]) IN
         IF r.ok THEN Ok(Some(r.val)) ELSE Fail(InvalidApiKeyDescription(des[1]))

extract_actions(value) ==
    LET act == get(value, "actions") IN
    IF act = None THEN Fail(MissingParameter("actions"))
    ELSE LET r == from_value_Vec_Action(act[1]) IN
         IF r.ok THEN r ELSE Fail(InvalidApiKeyActions(act[1]))

extract_indexes(value) ==
    LET ind == get(value, "indexes") IN
    IF ind = None THEN Fail(MissingParameter("indexes"))
    ELSE LET r == from_value_Vec_String(ind[1]) IN
         IF r.ok THEN r ELSE Fail(InvalidApiKeyIndexes(ind[1]))

(* A faulty variant: an explicit null counts as a missing expiresAt. *)
extract_expires_at_NullIsMissing(value, t) ==
    LET exp == get(value, "expiresAt") IN
    IF exp = None \/ exp[1].t = "null"
    THEN [ok |-> FALSE, val |-> None, err |-> MissingParameter("expiresAt"), reads |-> <<>>]
    ELSE parse_expiration_date(exp[1], t)

extract_expires_at(value, t) ==
    LET exp == get(value, "expiresAt") IN
    IF exp = None
    THEN [ok |-> FALSE, val |-> None, err |-> MissingParameter("expiresAt"), reads |-> <<>>]
    ELSE parse_expiration_date(exp[1], t)

(* create_from_value(value): seed is the stream thread_rng yields, t1 the  *)
(* clock when the expiration is parsed, t2 the clock at created_at.        *)
create_from_value(value, seed, t1, t2) ==
    LET description == extract_description(value)
        id == generate_id(seed)
        actions == extract_actions(value)
        indexes == extract_indexes(value)
        expires_at == extract_expires_at(value, t1)
    IN  IF ~description.ok
        THEN [ok |-> FALSE, val |-> None, err |-> description.err, reads |-> <<>>]
        ELSE IF ~actions.ok
        THEN [ok |-> FALSE, val |-> None, err |-> actions.err, reads |-> <<>>]
        ELSE IF ~indexes.ok
        THEN [ok |-> FALSE, val |-> None, err |-> indexes.err, reads |-> <<>>]
        ELSE IF ~expires_at.ok
        THEN [ok |-> FALSE, val |-> None, err |-> expires_at.err, reads |-> expires_at.reads]
        ELSE [ok |-> TRUE,
              val |-> Some(Key(description.val, id, actions.val, indexes.val,
                               expires_at.val, t2, t2)),
              err |-> NoErr,
              reads |-> expires_at.reads \o <<t2>>]

---------------------------------------------------------------------------
(* Key::update_from_value, field by field.  Each step returns the record   *)
(* as the step leaves it.                                                  *)

Step(self) == [ok |-> TRUE, self |-> self, err |-> NoErr, reads |-> <<>>]
Abort(self, e) == [ok |-> FALSE, self |-> self, err |-> e, reads |-> <<>>]

(* A faulty variant: a missing description key clears the description. *)
update_description_AbsentClears(self, value) ==
    LET des == get(value, "description") IN
    IF des = None THEN Step([self EXCEPT !.description = None])
    ELSE LET r == from_value_Option_String(des[1]) IN
         IF r.ok THEN Step([self EXCEPT !.description = r.val])
         ELSE Abort(self, InvalidApiKeyDescription(des[1]))

update_description(self, value) ==
    LET des == get(value, "description") IN
    IF des = None THEN Step(self)
    ELSE LET r == from_value_Option_String(des[1]) IN
         IF r.ok THEN Step([self EXCEPT !.description = r.val])
         ELSE Abort(self, InvalidApiKeyDescription(des[1]))

update_actions(self, value) ==
    LET act == get(value, "actions") IN
    IF act = None THEN Step(self)
    ELSE LET r == from_value_Vec_Action(act[1]) IN
         IF r.ok THEN Step([self EXCEPT !.actions = r.val])
         ELSE Abort(self, InvalidApiKeyActions(act[1]))

update_indexes(self, value) ==
    LET ind == get(value, "indexes") IN
    IF ind = None THEN Step(self)
    ELSE LET r == from_value_Vec_String(ind[1]) IN
         IF r.ok THEN Step([self EXCEPT !.indexes = r.val])
         ELSE Abort(self, InvalidApiKeyIndexes(ind[1]))

(* A faulty variant: an explicit null keeps the stored expiration. *)
update_expires_at_NullKeeps(self, value, t) ==
    LET exp == get(value, "expiresAt") IN
    IF exp = None \/ exp[1].t = "null" THEN Step(self)
    ELSE LET r == parse_expiration_date(exp[1], t) IN
         IF r.ok THEN [ok |-> TRUE, self |-> [self EXCEPT !.expires_at = r.val],
                       err |-> NoErr, reads |-> r.reads]
         ELSE [ok |-> FALSE, self |-> self, err |-> r.err, reads |-> r.reads]

(* A faulty variant: with no expiresAt key the stored one is checked again. *)
update_expires_at_Revalidates(self, value, t) ==
    LET exp == get(value, "expiresAt") IN
    IF exp = None
    THEN IF self.expires_at # None /\ ~(self.expires_at[1] > t)
         THEN [ok |-> FALSE, self |-> self,
               err |-> InvalidApiKeyExpiresAt(Null), reads |-> <<t>>]
         ELSE Step(self)
    ELSE LET r == parse_expiration_date(exp[1], t) IN
         IF r.ok THEN [ok |-> TRUE, self |-> [self EXCEPT !.expires_at = r.val],
                       err |-> NoErr, reads |-> r.reads]
         ELSE [ok |-> FALSE, self |-> self, err |-> r.err, reads |-> r.reads]

update_expires_at(self, value, t) ==
    LET exp == get(value, "expiresAt") IN
    IF exp = None THEN Step(self)
    ELSE LET r == parse_expiration_date(exp[1], t) IN
         IF r.ok THEN [ok |-> TRUE, self |-> [self EXCEPT !.expires_at = r.val],
                       err |-> NoErr, reads |-> r.reads]
         ELSE [ok |-> FALSE, self |-> self, err |-> r.err, reads |-> r.reads]

(* A faulty variant: the refresh writes created_at as well. *)
set_updated_at_Both(self, t) ==
    [self EXCEPT !.updated_at = t, !.created_at = t]

(* A faulty variant: the refresh writes created_at instead of updated_at. *)
set_updated_at_WrongField(self, t) ==
    [self EXCEPT !.created_at = t]

(* self.updated_at = OffsetDateTime::now_utc() *)
set_updated_at(self, t) ==
    [self EXCEPT !.updated_at = t]

(* A faulty variant: all fields are validated on a copy, and the copy is   *)
(* dropped when one of them fails.                                         *)
update_from_value_Atomic(self, value, t1, t2) ==
    LET s1 == update_description(self, value)
        s2 == IF s1.ok THEN update_actions(s1.self, value) ELSE s1
        s3 == IF s2.ok THEN update_indexes(s2.self, value) ELSE s2
        s4 == IF s3.ok THEN update_expires_at(s3.self, value, t1) ELSE s3
    IN  IF s4.ok
        THEN [ok |-> TRUE, self |-> set_updated_at(s4.self, t2),
              err |-> NoErr, reads |-> s4.reads \o <<t2>>]
        ELSE [s4 EXCEPT !.self = self]

(* update_from_value(&mut self, value): t1 is the clock when the           *)
(* expiration is parsed, t2 the clock at the refresh of updated_at.        *)
update_from_value(self, value, t1, t2) ==
    LET s1 == update_description(self, value)
        s2 == IF s1.ok THEN update_actions(s1.self, value) ELSE s1
        s3 == IF s2.ok THEN update_indexes(s2.self, value) ELSE s2
        s4 == IF s3.ok THEN update_expires_at(s3.self, value, t1) ELSE s3
    IN  IF s4.ok
        THEN [ok |-> TRUE, self |-> set_updated_at(s4.self, t2),
              err |-> NoErr, reads |-> s4.reads \o <<t2>>]
        ELSE s4

---------------------------------------------------------------------------
(* The fixed default records. *)

default_admin(seed, t) ==
    Key(Some(Word("Default Admin API Key (Use it for all other operations. Caution! Do not use it on a public frontend)")),
        generate_id(seed), <<"All">>, <<Word("*")>>, None, t, t)

default_search(seed, t) ==
    Key(Some(Word("Default Search API Key (Use it to search from the frontend)")),
        generate_id(seed), <<"Search">>, <<Word("*")>>, None, t, t)

---------------------------------------------------------------------------
(* The inputs the callers pass: a mapping from some of the four recognised *)
(* keys to values of any shape.                                            *)

Absent == [t |-> "absent", v |-> <<>>]

DescriptionValues == {Null, Str(Word("new text")), Num(1)}

ActionsValues ==
    {Null, Arr(<<Str(Word("search"))>>),
     Arr(<<Str(Word("*")), Str(Word("bogus"))>>)}

IndexesValues == {Null, Arr(<<Str(Word("movies"))>>), Arr(<<Num(1)>>)}

(* One string of each accepted format, and a string of none of them (a   *)
(* UTC designator after a space-separated date and time).                  *)
DateStrings ==
    {<<DateTok(0), Ch("T"), TimeTok(MaxTick), OffsetTok(1)>>,
     <<DateTok(MaxDay), Ch("T"), TimeTok(MaxTick)>>,
     <<DateTok(0), Ch(" "), TimeTok(MaxTick)>>,
     <<DateTok(MaxDay)>>}

OtherStrings ==
    {<<DateTok(MaxDay), Ch(" "), TimeTok(0), Ch("Z")>>}

ExpiresAtValues ==
    {Null, Num(1)} \cup {Str(s) : s \in DateStrings \cup OtherStrings}

Mapping(d, a, i, e) ==
    LET f == [description |-> d, actions |-> a, indexes |-> i, expiresAt |-> e]
        present == {k \in DOMAIN f : f[k] # Absent}
    IN  [k \in present |-> f[k]]

Inputs ==
    {Mapping(d, a, i, e) :
        d \in DescriptionValues \cup {Absent},
        a \in ActionsValues \cup {Absent},
        i \in IndexesValues \cup {Absent},
        e \in ExpiresAtValues \cup {Absent}}

Seeds == 0..MaxSeed

---------------------------------------------------------------------------
(* The state machine. *)

NoInput == <<>>

Idle ==
    [op |-> "idle", input |-> NoInput, ok |-> TRUE, err |-> NoErr,
     ret |-> None, reads |-> <<>>]

Called(op, input, r) ==
    [op |-> op, input |-> input, ok |-> r.ok, err |-> r.err,
     ret |-> None, reads |-> r.reads]

(* The clock after a call that took the readings `reads`. *)
ClockAfter(reads) == IF reads = <<>> THEN now ELSE reads[Len(reads)]

Init ==
    /\ key = None
    /\ now = 0
    /\ call = Idle

CreateFromValue ==
    /\ call.op = "idle"
    /\ key = None
    /\ \E value \in Inputs, seed \in Seeds :
       \E t1 \in now..MaxTime :
       \E t2 \in t1..MaxTime :
          LET r == create_from_value(value, seed, t1, t2) IN
          /\ key' = IF r.ok THEN r.val ELSE key
          /\ now' = ClockAfter(r.reads)
          /\ call' = Called("create_from_value", value, r)

UpdateFromValue ==
    /\ call.op = "idle"
    /\ key # None
    /\ \E value \in Inputs :
       \E t1 \in now..MaxTime :
       \E t2 \in t1..MaxTime :
          LET r == update_from_value(key[1], value, t1, t2) IN
          /\ key' = Some(r.self)
          /\ now' = ClockAfter(r.reads)
          /\ call' = Called("update_from_value", value, r)

DefaultAdmin ==
    /\ call.op = "idle"
    /\ key = None
    /\ \E seed \in Seeds, t \in now..MaxTime :
          /\ key' = Some(default_admin(seed, t))
          /\ now' = t
          /\ call' = [Idle EXCEPT !.op = "default_admin", !.reads = <<t>>]

DefaultSearch ==
    /\ call.op = "idle"
    /\ key = None
    /\ \E seed \in Seeds, t \in now..MaxTime :
          /\ key' = Some(default_search(seed, t))
          /\ now' = t
          /\ call' = [Idle EXCEPT !.op = "default_search", !.reads = <<t>>]

(* parse_expiration_date applied to a value on its own. *)
ParseExpirationDate ==
    /\ call.op = "idle"
    /\ \E value \in ExpiresAtValues, t \in now..MaxTime :
          LET r == parse_expiration_date(value, t) IN
          /\ call' = [op |-> "parse_expiration_date",
                      input |-> [expiresAt |-> value],
                      ok |-> r.ok, err |-> r.err, ret |-> r.val,
                      reads |-> r.reads]
          /\ now' = ClockAfter(r.reads)
          /\ UNCHANGED key

(* The caller takes the result and is free to make its next call. *)
Return ==
    /\ call.op # "idle"
    /\ call' = Idle
    /\ UNCHANGED <<key, now>>

Next ==
    \/ CreateFromValue
    \/ UpdateFromValue
    \/ DefaultAdmin
    \/ DefaultSearch
    \/ ParseExpirationDate
    \/ Return

Spec == Init /\ [][Next]_vars

---------------------------------------------------------------------------
(* Vocabulary of the properties: what the documentation calls a valid      *)
(* value of each key, stated on the input alone.                           *)

Has(input, k) == k \in DOMAIN input

IsStringArray(v) ==
    v.t = "array" /\ \A i \in 1..Len(v.v) : v.v[i].t = "string"

ValidDescription(v) == v.t \in {"null", "string"}
ValidActions(v) ==
    IsStringArray(v) /\ \A i \in 1..Len(v.v) : v.v[i].v \in ActionNames
ValidIndexes(v) == IsStringArray(v)

(* The four accepted formats, as the pieces a string is made of. *)
AcceptedShapes ==
    {<<"YYYY-MM-DD", "T", "HH:MM:SS", "Z">>,
     <<"YYYY-MM-DD", "T", "HH:MM:SS", "+HH:MM">>,
     <<"YYYY-MM-DD", "T", "HH:MM:SS">>,
     <<"YYYY-MM-DD", " ", "HH:MM:SS">>,
     <<"YYYY-MM-DD">>}

Shape(s) == [i \in 1..Len(s) |-> s[i].k]
Accepted(v) == v.t = "string" /\ Shape(v.v) \in AcceptedShapes

(* The instant, in UTC, an accepted string stands for. *)
UtcInstant(v) ==
    v.v[1].n * TicksPerDay
    + (IF Len(v.v) >= 3 THEN v.v[3].n ELSE 0)
    - (IF Len(v.v) = 4 THEN v.v[4].n ELSE 0)

(* A valid expiresAt when the clock reads t: null, or a strictly later date. *)
ValidExpiresAt(v, t) == v.t = "null" \/ (Accepted(v) /\ UtcInstant(v) > t)

(* The clock reading a call's validation of expiresAt went by: the first   *)
(* reading the call took, or the clock before the call if it took none.    *)
ValidationClock(c, before) == IF c.reads = <<>> THEN before ELSE c.reads[1]

Required == <<"actions", "indexes", "expiresAt">>

IsCreate(c) == c.op = "create_from_value"
IsUpdate(c) == c.op = "update_from_value"
IsParse(c) == c.op = "parse_expiration_date"

---------------------------------------------------------------------------
(* C1: whenever update_from_value returns an error, every field of the     *)
(* record equals its value before the call.                                *)
C1_FailedUpdateLeavesRecord ==
    [][(IsUpdate(call') /\ ~call'.ok) => key' = key]_vars

---------------------------------------------------------------------------
(* The fields create_from_value checks before the required key number n,  *)
(* all present where required and valid.                                   *)
ValidBefore(input, n) ==
    /\ Has(input, "description") => ValidDescription(input.description)
    /\ n > 1 => Has(input, "actions") /\ ValidActions(input.actions)
    /\ n > 2 => Has(input, "indexes") /\ ValidIndexes(input.indexes)

(* C2 as stated: with one of actions, indexes, expiresAt absent, whatever  *)
(* the other keys hold, create_from_value fails with MissingParameter      *)
(* naming an absent field.                                                 *)
C2_MissingWhateverTheRest ==
    (IsCreate(call) /\ \E n \in 1..3 : ~Has(call.input, Required[n]))
    => /\ ~call.ok
       /\ call.err.kind = "MissingParameter"
       /\ \E n \in 1..3 : /\ call.err.param = Required[n]
                          /\ ~Has(call.input, Required[n])

(* C2, amended: create_from_value fails with MissingParameter naming a     *)
(* required key exactly when that key is absent and every field checked    *)
(* before it (description, then the required keys in the order actions,    *)
(* indexes, expiresAt) is valid; an expiresAt present with null is never   *)
(* reported missing.                                                       *)
C2_FirstMissingParameter ==
    IsCreate(call) =>
        \A n \in 1..3 :
            (~call.ok /\ call.err.kind = "MissingParameter"
                      /\ call.err.param = Required[n])
            <=> (~Has(call.input, Required[n]) /\ ValidBefore(call.input, n))

C2_Witness ==
    /\ IsCreate(call)
    /\ DOMAIN call.input = {"description", "actions", "indexes"}
    /\ ValidBefore(call.input, 3)
    /\ call.err = MissingParameter("expiresAt")

---------------------------------------------------------------------------
(* C3: once a record exists, no call changes its id or its created_at:     *)
(* every update_from_value, succeeding or failing, leaves both as they     *)
(* were at creation.                                                       *)
C3_IdAndCreatedAtKept ==
    [][key # None =>
        /\ key' # None
        /\ key'[1].id = key[1].id
        /\ key'[1].created_at = key[1].created_at]_vars

C3_Witness ==
    /\ IsUpdate(call)
    /\ call.ok
    /\ DOMAIN call.input = {"description", "actions", "indexes", "expiresAt"}
    /\ key[1].updated_at > key[1].created_at

---------------------------------------------------------------------------
(* C4: created_at <= updated_at in every state of a record, the clock      *)
(* never running backwards.                                                *)
C4_CreatedNotAfterUpdated ==
    key # None => key[1].created_at <= key[1].updated_at

C4_Witness ==
    /\ IsUpdate(call)
    /\ call.ok
    /\ key[1].created_at < key[1].updated_at

---------------------------------------------------------------------------
(* What a key absent from the input of update_from_value leaves alone.     *)
AbsentKeysKept(input, old, new) ==
    /\ ~Has(input, "description") => new.description = old.description
    /\ ~Has(input, "actions") => new.actions = old.actions
    /\ ~Has(input, "indexes") => new.indexes = old.indexes
    /\ ~Has(input, "expiresAt") => new.expires_at = old.expires_at
    /\ new.id = old.id
    /\ new.created_at = old.created_at

(* C5 as stated: a successful update_from_value keeps every field whose    *)
(* key is absent and leaves updated_at strictly greater than before.       *)
C5_UpdatedAtStrictlyLater ==
    [][(IsUpdate(call') /\ call'.ok) =>
        /\ AbsentKeysKept(call'.input, key[1], key'[1])
        /\ key'[1].updated_at > key[1].updated_at]_vars

(* C5, amended: a successful update_from_value keeps every field whose key *)
(* is absent (and id and created_at), and sets updated_at to the clock     *)
(* reading it takes last, which is never earlier than updated_at before    *)
(* the call and is equal to it when the clock has not advanced; so also    *)
(* for an input with none of the four keys.                                *)
C5_OnlyPresentKeysAndRefresh ==
    [][(IsUpdate(call') /\ call'.ok) =>
        /\ AbsentKeysKept(call'.input, key[1], key'[1])
        /\ call'.reads # <<>>
        /\ key'[1].updated_at = call'.reads[Len(call'.reads)]
        /\ key'[1].updated_at = now'
        /\ key'[1].updated_at >= key[1].updated_at
        /\ (now' > now => key'[1].updated_at > key[1].updated_at)]_vars

C5_Witness ==
    /\ IsUpdate(call)
    /\ call.ok
    /\ DOMAIN call.input = {}
    /\ key[1].updated_at > key[1].created_at
    /\ key[1].expires_at # None

---------------------------------------------------------------------------
(* C6: parse_expiration_date returns a timestamp only for a string of one  *)
(* of the four formats whose instant is strictly later than the clock      *)
(* reading the parse takes, and then that instant; null gives no           *)
(* expiration; every other value fails with InvalidExpiresAt carrying the  *)
(* value.                                                                  *)
C6_ParseExpirationDate ==
    IsParse(call) =>
        LET v == call.input.expiresAt IN
        /\ Accepted(v) => call.reads # <<>>
        /\ (call.ok /\ call.ret # None) =>
                /\ Accepted(v)
                /\ UtcInstant(v) > call.reads[1]
                /\ call.ret = Some(UtcInstant(v))
        /\ v.t = "null" => call.ok /\ call.ret = None
        /\ (Accepted(v) /\ UtcInstant(v) > call.reads[1]) =>
                call.ok /\ call.ret = Some(UtcInstant(v))
        /\ (v.t # "null" /\ ~(Accepted(v) /\ UtcInstant(v) > call.reads[1])) =>
                ~call.ok /\ call.err = InvalidApiKeyExpiresAt(v)

(* A date equal to the clock reading is refused. *)
C6_Witness ==
    /\ IsParse(call)
    /\ Accepted(call.input.expiresAt)
    /\ call.reads = <<UtcInstant(call.input.expiresAt)>>
    /\ call.err = InvalidApiKeyExpiresAt(call.input.expiresAt)

---------------------------------------------------------------------------
(* The 62 symbols of an identifier. *)
Alphabet ==
    {"a","b","c","d","e","f","g","h","i","j","k","l","m",
     "n","o","p","q","r","s","t","u","v","w","x","y","z"}
    \cup {"0","1","2","3","4","5","6","7","8","9"}
    \cup {"A","B","C","D","E","F","G","H","I","J","K","L","M",
          "N","O","P","Q","R","S","T","U","V","W","X","Y","Z"}

ValidCreation(c, before) ==
    /\ ValidBefore(c.input, 3)
    /\ Has(c.input, "expiresAt")
    /\ ValidExpiresAt(c.input.expiresAt, ValidationClock(c, before))

(* C7: create_from_value succeeds on every input whose actions, indexes    *)
(* and expiresAt are present and valid and whose description is absent,    *)
(* null or a string; the record's id has 64 characters of the 62-symbol    *)
(* alphabet, created_at equals updated_at, and a null expiresAt gives no   *)
(* expiration.                                                             *)
C7_ValidCreationSucceeds ==
    [][(IsCreate(call') /\ ValidCreation(call', now)) =>
        /\ call'.ok
        /\ key' # None
        /\ Cardinality(Alphabet) = 62
        /\ Len(key'[1].id) = 64
        /\ \A i \in 1..Len(key'[1].id) : key'[1].id[i] \in Alphabet
        /\ key'[1].created_at = key'[1].updated_at
        /\ (call'.input.expiresAt.t = "null" => key'[1].expires_at = None)]_vars

C7_Witness ==
    /\ IsCreate(call)
    /\ call.ok
    /\ Accepted(call.input.expiresAt)
    /\ Has(call.input, "description")
    /\ call.input.description.t = "string"
    /\ key[1].expires_at = Some(UtcInstant(call.input.expiresAt))

---------------------------------------------------------------------------
(* The value a valid input value gives a field. *)
NewDescription(v) == IF v.t = "null" THEN None ELSE Some(v.v)
NewActions(v) == [i \in 1..Len(v.v) |-> ActionOfName(v.v[i].v)]
NewIndexes(v) == [i \in 1..Len(v.v) |-> v.v[i].v]
NewExpiresAt(v) == IF v.t = "null" THEN None ELSE Some(UtcInstant(v))

(* The keys of an update input in the order they are processed, and        *)
(* whether the key number n is present with an invalid value when the      *)
(* clock reads t.                                                          *)
InvalidAt(input, n, t) ==
    \/ n = 1 /\ Has(input, "description") /\ ~ValidDescription(input.description)
    \/ n = 2 /\ Has(input, "actions") /\ ~ValidActions(input.actions)
    \/ n = 3 /\ Has(input, "indexes") /\ ~ValidIndexes(input.indexes)
    \/ n = 4 /\ Has(input, "expiresAt") /\ ~ValidExpiresAt(input.expiresAt, t)

(* No key before the key number n is invalid. *)
ValidUpTo(input, n, t) == \A m \in 1..(n - 1) : ~InvalidAt(input, m, t)

ErrorKindAt(n) ==
    <<"InvalidApiKeyDescription", "InvalidApiKeyActions",
      "InvalidApiKeyIndexes", "InvalidApiKeyExpiresAt">>[n]

(* C8: update_from_value tells a key present with null from an absent key. *)
(* For description and expiresAt an absent key keeps the stored value, a   *)
(* null is no error, lets the update succeed when nothing else is invalid  *)
(* and clears the field, and a valid value replaces it.  For actions and   *)
(* indexes a null is an error: the update fails with InvalidActions /      *)
(* InvalidIndexes carrying the null (when no earlier key is invalid) and   *)
(* the field keeps its value.                                              *)
C8_NullIsNotAbsent ==
    [][IsUpdate(call') =>
        LET input == call'.input
            t == ValidationClock(call', now)
            old == key[1]
            new == key'[1]
        IN
        /\ ~Has(input, "description") => new.description = old.description
        /\ ~Has(input, "expiresAt") => new.expires_at = old.expires_at
        /\ (Has(input, "description") /\ input.description.t = "null") =>
                /\ call'.err.kind # "InvalidApiKeyDescription"
                /\ new.description = None
                /\ ValidUpTo(input, 5, t) => call'.ok
        /\ (Has(input, "expiresAt") /\ input.expiresAt.t = "null") =>
                /\ call'.err.kind # "InvalidApiKeyExpiresAt"
                /\ call'.ok <=> ValidUpTo(input, 4, t)
                /\ call'.ok => new.expires_at = None
        /\ (Has(input, "description") /\ input.description.t = "string") =>
                new.description = Some(input.description.v)
        /\ (Has(input, "expiresAt") /\ Accepted(input.expiresAt) /\ call'.ok) =>
                new.expires_at = Some(UtcInstant(input.expiresAt))
        /\ (Has(input, "actions") /\ input.actions.t = "null"
                /\ ValidUpTo(input, 2, t)) =>
                /\ ~call'.ok
                /\ call'.err = InvalidApiKeyActions(Null)
                /\ new.actions = old.actions
        /\ (Has(input, "indexes") /\ input.indexes.t = "null"
                /\ ValidUpTo(input, 3, t)) =>
                /\ ~call'.ok
                /\ call'.err = InvalidApiKeyIndexes(Null)
                /\ new.indexes = old.indexes]_vars

(* Both nulls at once, on a record that a later call finds cleared. *)
C8_Witness ==
    /\ IsUpdate(call)
    /\ call.ok
    /\ DOMAIN call.input = {"description", "expiresAt"}
    /\ call.input.description = Null
    /\ call.input.expiresAt = Null
    /\ key[1].description = None
    /\ key[1].expires_at = None
    /\ key[1].updated_at > key[1].created_at

---------------------------------------------------------------------------
(* C9: a stored expiration is strictly later than the clock reading taken  *)
(* while validating it in the call that assigned it, and only a call whose *)
(* input has the expiresAt key and succeeds assigns it.  It is not checked *)
(* again: an update_from_value without the expiresAt key never fails with  *)
(* InvalidExpiresAt and keeps the stored expiration, also once the clock   *)
(* has gone past it.                                                       *)
C9_ExpirationValidatedOnlyWhenSet ==
    [][call'.op # "idle" =>
        LET assigns == /\ IsCreate(call') \/ IsUpdate(call')
                       /\ call'.ok
                       /\ Has(call'.input, "expiresAt")
        IN
        /\ (assigns /\ key'[1].expires_at # None) =>
                /\ call'.reads # <<>>
                /\ key'[1].expires_at[1] > call'.reads[1]
        /\ (~assigns /\ key' # None) =>
                key'[1].expires_at = IF key = None THEN None ELSE key[1].expires_at
        /\ (IsUpdate(call') /\ ~Has(call'.input, "expiresAt")) =>
                call'.err.kind # "InvalidApiKeyExpiresAt"]_vars

(* An update without expiresAt succeeds on a record whose expiration the   *)
(* clock has reached.                                                      *)
C9_Witness ==
    /\ IsUpdate(call)
    /\ call.ok
    /\ ~Has(call.input, "expiresAt")
    /\ key[1].expires_at # None
    /\ key[1].expires_at[1] <= now

---------------------------------------------------------------------------
(* C10: update_from_value processes description, actions, indexes,         *)
(* expiresAt in this order and fails exactly when one of them is present   *)
(* and invalid, at the first such key: the error is that key's kind and    *)
(* carries its value, that field and every later one keep their values,    *)
(* every present key before it has already given its field the new value,  *)
(* and updated_at is not refreshed.                                        *)
C10_StopsAtFirstInvalidField ==
    [][IsUpdate(call') =>
        LET input == call'.input
            t == ValidationClock(call', now)
            old == key[1]
            new == key'[1]
            keys == <<"description", "actions", "indexes", "expiresAt">>
        IN
        /\ call'.ok <=> ValidUpTo(input, 5, t)
        /\ \A n \in 1..4 :
            (InvalidAt(input, n, t) /\ ValidUpTo(input, n, t)) =>
                /\ ~call'.ok
                /\ call'.err.kind = ErrorKindAt(n)
                /\ call'.err.raw = input[keys[n]]
                /\ new.updated_at = old.updated_at
                /\ new.description =
                        IF n > 1 /\ Has(input, "description")
                        THEN NewDescription(input.description)
                        ELSE old.description
                /\ new.actions =
                        IF n > 2 /\ Has(input, "actions")
                        THEN NewActions(input.actions)
                        ELSE old.actions
                /\ new.indexes =
                        IF n > 3 /\ Has(input, "indexes")
                        THEN NewIndexes(input.indexes)
                        ELSE old.indexes
                /\ new.expires_at = old.expires_at]_vars

(* An update that fails at indexes after description and actions took      *)
(* their new values.                                                       *)
C10_Witness ==
    /\ IsUpdate(call)
    /\ ~call.ok
    /\ call.err.kind = "InvalidApiKeyIndexes"
    /\ Has(call.input, "description")
    /\ Has(call.input, "actions")
    /\ key[1].description = NewDescription(call.input.description)
    /\ key[1].actions = NewActions(call.input.actions)
    /\ key[1].indexes = <<Word("*")>>

=============================================================================
